---- MODULE Spec2Model ----
(***************************************************************************)
(* Cognitive SOAR threat attribution system.                               *)
(*   src/train_model.py : synthetic corpus generator and offline training  *)
(*   src/app.py         : Streamlit serving script (one rerun per request) *)
(***************************************************************************)
EXTENDS Integers, Sequences, FiniteSets, TLC

(***************************************************************************)
(* Bounds of the model.                                                    *)
(***************************************************************************)
\* largest num_samples passed to generate_synthetic_data
MaxSamples == 10
\* corpus size used by train(), standing in for the default num_samples
TrainSamples == 6
\* number of calls of train() that are followed
MaxTrainCalls == 2
\* number of distinct states the process-global numpy generator can start in
NumEntropy == 4
\* number of generator runs that are compared with each other
MaxRuns == 2

VARIABLES
    \* ---- generator (train_model.py:13-120)
    num_samples,      \* the argument of generate_synthetic_data
    rng,              \* state of numpy's process-global random generator
    runs,             \* the corpora returned so far, one per call

    \* ---- training (train_model.py:204-244)
    files,            \* file system: path -> <<>> (absent) or <<content>>
    train_pc,         \* position inside train()
    data,             \* the corpus held by train()
    classification_model, \* result of train_classification_model
    clustering_model,     \* result of train_clustering_model
    train_calls,      \* completed calls of train(): what each one did

    \* ---- serving (app.py), one rerun of the script per interaction
    cache,            \* st.cache_resource entry of load_assets(): None until filled
    pc,               \* position of the current rerun in the script
    assets,           \* the tuple load_assets() returned to this rerun
    form_values,      \* the sidebar widgets' values
    genai_provider,   \* the selected provider
    input_dict,       \* the feature vector built from the form
    risk_scores,      \* the risk contributions
    prediction,       \* predict_model's row: label and score
    is_malicious,
    cluster_id,
    threat_profile,
    prescription,
    raised,           \* the exception generate_prescription raised, if any
    status,           \* label state of the st.status box
    errors,           \* the st.error messages of this rerun
    calls,            \* calls made by this rerun to the models and the provider
    display           \* what the four tabs show

genVars == <<num_samples, rng, runs>>
trainVars == <<files, train_pc, data, classification_model, clustering_model, train_calls>>
runVars == <<pc, assets, form_values, genai_provider, input_dict, risk_scores,
             prediction, is_malicious, cluster_id, threat_profile, prescription,
             raised, status, errors, calls, display>>
serveVars == <<cache, runVars>>
vars == <<genVars, trainVars, serveVars>>

(***************************************************************************)
(* Python None / a value: <<>> / <<v>>.                                    *)
(***************************************************************************)
None == <<>>
Some(v) == <<v>>

(***************************************************************************)
(* The feature schema (train_model.py:17-22).                              *)
(***************************************************************************)
features ==
    << "having_IP_Address", "URL_Length", "Shortining_Service",
       "having_At_Symbol", "double_slash_redirecting", "Prefix_Suffix",
       "having_Sub_Domain", "SSLfinal_State", "URL_of_Anchor", "Links_in_tags",
       "SFH", "Abnormal_URL", "has_political_keyword", "sophistication_level" >>

FeatureSet == { features[i] : i \in DOMAIN features }

\* the columns of the corpus: the features, then 'label' and 'threat_actor'
Columns == FeatureSet \cup {"label", "threat_actor"}

(***************************************************************************)
(* The per-archetype probability tables.  An entry is the list of          *)
(* <<value, probability in percent>> pairs given to np.random.choice.      *)
(***************************************************************************)
state_sponsored_data ==
    [ having_IP_Address        |-> << <<1, 10>>, <<-1, 90>> >>,
      URL_Length               |-> << <<1, 70>>, <<0, 20>>, <<-1, 10>> >>,
      Shortining_Service       |-> << <<1, 20>>, <<-1, 80>> >>,
      having_At_Symbol         |-> << <<1, 30>>, <<-1, 70>> >>,
      double_slash_redirecting |-> << <<1, 40>>, <<-1, 60>> >>,
      Prefix_Suffix            |-> << <<1, 80>>, <<-1, 20>> >>,
      having_Sub_Domain        |-> << <<1, 70>>, <<0, 20>>, <<-1, 10>> >>,
      SSLfinal_State           |-> << <<-1, 70>>, <<0, 20>>, <<1, 10>> >>,
      URL_of_Anchor            |-> << <<-1, 60>>, <<0, 30>>, <<1, 10>> >>,
      Links_in_tags            |-> << <<-1, 50>>, <<0, 30>>, <<1, 20>> >>,
      SFH                      |-> << <<-1, 70>>, <<0, 20>>, <<1, 10>> >>,
      Abnormal_URL             |-> << <<1, 60>>, <<-1, 40>> >>,
      has_political_keyword    |-> << <<1, 30>>, <<-1, 70>> >>,
      sophistication_level     |-> << <<1, 80>>, <<0, 15>>, <<-1, 5>> >> ]

cybercrime_data ==
    [ having_IP_Address        |-> << <<1, 60>>, <<-1, 40>> >>,
      URL_Length               |-> << <<1, 20>>, <<0, 50>>, <<-1, 30>> >>,
      Shortining_Service       |-> << <<1, 80>>, <<-1, 20>> >>,
      having_At_Symbol         |-> << <<1, 50>>, <<-1, 50>> >>,
      double_slash_redirecting |-> << <<1, 60>>, <<-1, 40>> >>,
      Prefix_Suffix            |-> << <<1, 40>>, <<-1, 60>> >>,
      having_Sub_Domain        |-> << <<1, 30>>, <<0, 40>>, <<-1, 30>> >>,
      SSLfinal_State           |-> << <<-1, 50>>, <<0, 30>>, <<1, 20>> >>,
      URL_of_Anchor            |-> << <<-1, 40>>, <<0, 40>>, <<1, 20>> >>,
      Links_in_tags            |-> << <<-1, 50>>, <<0, 30>>, <<1, 20>> >>,
      SFH                      |-> << <<-1, 60>>, <<0, 20>>, <<1, 20>> >>,
      Abnormal_URL             |-> << <<1, 70>>, <<-1, 30>> >>,
      has_political_keyword    |-> << <<1, 10>>, <<-1, 90>> >>,
      sophistication_level     |-> << <<1, 20>>, <<0, 50>>, <<-1, 30>> >> ]

hacktivist_data ==
    [ having_IP_Address        |-> << <<1, 40>>, <<-1, 60>> >>,
      URL_Length               |-> << <<1, 30>>, <<0, 40>>, <<-1, 30>> >>,
      Shortining_Service       |-> << <<1, 50>>, <<-1, 50>> >>,
      having_At_Symbol         |-> << <<1, 40>>, <<-1, 60>> >>,
      double_slash_redirecting |-> << <<1, 40>>, <<-1, 60>> >>,
      Prefix_Suffix            |-> << <<1, 50>>, <<-1, 50>> >>,
      having_Sub_Domain        |-> << <<1, 40>>, <<0, 40>>, <<-1, 20>> >>,
      SSLfinal_State           |-> << <<-1, 40>>, <<0, 30>>, <<1, 30>> >>,
      URL_of_Anchor            |-> << <<-1, 40>>, <<0, 30>>, <<1, 30>> >>,
      Links_in_tags            |-> << <<-1, 40>>, <<0, 30>>, <<1, 30>> >>,
      SFH                      |-> << <<-1, 40>>, <<0, 30>>, <<1, 30>> >>,
      Abnormal_URL             |-> << <<1, 50>>, <<-1, 50>> >>,
      has_political_keyword    |-> << <<1, 70>>, <<-1, 30>> >>,
      sophistication_level     |-> << <<1, 30>>, <<0, 50>>, <<-1, 20>> >> ]

benign_data ==
    [ having_IP_Address        |-> << <<1, 5>>, <<-1, 95>> >>,
      URL_Length               |-> << <<1, 10>>, <<0, 60>>, <<-1, 30>> >>,
      Shortining_Service       |-> << <<1, 10>>, <<-1, 90>> >>,
      having_At_Symbol         |-> << <<1, 5>>, <<-1, 95>> >>,
      double_slash_redirecting |-> << <<1, 5>>, <<-1, 95>> >>,
      Prefix_Suffix            |-> << <<1, 10>>, <<-1, 90>> >>,
      having_Sub_Domain        |-> << <<1, 10>>, <<0, 40>>, <<-1, 50>> >>,
      SSLfinal_State           |-> << <<-1, 5>>, <<0, 15>>, <<1, 80>> >>,
      URL_of_Anchor            |-> << <<-1, 10>>, <<0, 20>>, <<1, 70>> >>,
      Links_in_tags            |-> << <<-1, 10>>, <<0, 20>>, <<1, 70>> >>,
      SFH                      |-> << <<-1, 10>>, <<0, 10>>, <<1, 80>> >>,
      Abnormal_URL             |-> << <<1, 10>>, <<-1, 90>> >>,
      has_political_keyword    |-> << <<1, 5>>, <<-1, 95>> >>,
      sophistication_level     |-> << <<1, 5>>, <<0, 10>>, <<-1, 85>> >> ]

(***************************************************************************)
(* numpy's process-global generator.  The module never seeds it, so a      *)
(* process starts with a state taken from OS entropy; every draw advances  *)
(* it.  The generator is abstracted to a linear congruential one.          *)
(***************************************************************************)
Entropy == { 7919 * (k + 1) : k \in 0 .. NumEntropy - 1 }

NextRng(r) == (75 * r + 74) % 65537

\* the uniform draw in [0, 100) that state r yields
Uniform(r) == (r \div 7) % 100

\* np.random.choice(values, p=probabilities) for one draw u in [0, 100)
RECURSIVE Choice(_, _)
Choice(options, u) ==
    IF Len(options) = 1 \/ u < options[1][2]
    THEN options[1][1]
    ELSE Choice(Tail(options), u - options[1][2])

\* np.random.choice(values, size, p): `size` draws, in order
RECURSIVE ChoiceN(_, _, _)
ChoiceN(r, size, options) ==
    IF size = 0
    THEN [vals |-> <<>>, rng |-> r]
    ELSE LET rest == ChoiceN(NextRng(r), size - 1, options)
         IN  [vals |-> <<Choice(options, Uniform(r))>> \o rest.vals, rng |-> rest.rng]

\* one `..._data = {feature: np.random.choice(...), ...}` dict literal: the
\* columns are drawn in the order of the literal, which is the schema's order
RECURSIVE DrawColumns(_, _, _, _)
DrawColumns(r, size, table, k) ==
    IF k > Len(features)
    THEN [cols |-> <<>>, rng |-> r]
    ELSE LET col  == ChoiceN(r, size, table[features[k]])
             rest == DrawColumns(col.rng, size, table, k + 1)
         IN  [cols |-> <<col.vals>> \o rest.cols, rng |-> rest.rng]

\* pd.DataFrame(..._data) followed by df['label'] = l; df['threat_actor'] = t
LabelledFrame(cols, size, l, t) ==
    [ i \in 1 .. size |->
        [ c \in Columns |->
            IF c = "label" THEN l
            ELSE IF c = "threat_actor" THEN t
            ELSE cols[CHOOSE k \in DOMAIN features : features[k] = c][i] ] ]

\* final_df.sample(frac=1).reset_index(drop=True): a permutation drawn from
\* the global generator (Fisher-Yates), rows renumbered from the top
RECURSIVE Shuffle(_, _, _)
Shuffle(df, r, i) ==
    IF i <= 1
    THEN [df |-> df, rng |-> r]
    ELSE LET j == 1 + (Uniform(r) % i)
             swapped == [df EXCEPT ![i] = df[j], ![j] = df[i]]
         IN  Shuffle(swapped, NextRng(r), i - 1)

\* the archetype behind each threat_actor id the generator writes: the
\* profile named in the comment above each table (lines 27, 46, 65), its
\* table, and the id set on its rows (lines 110, 112, 114)
generator_archetypes ==
    [ k \in 0 .. 2 |->
        CASE k = 0 -> [name |-> "State-Sponsored",      table |-> state_sponsored_data]
          [] k = 1 -> [name |-> "Organized Cybercrime", table |-> cybercrime_data]
          [] k = 2 -> [name |-> "Hacktivist",           table |-> hacktivist_data] ]

\* hacktivist = num_phishing - state_sponsored - cybercrime (line 66)
HacktivistCountDropRemainder(num_phishing, state_sponsored, cybercrime) ==
    num_phishing \div 3

HacktivistCount(num_phishing, state_sponsored, cybercrime) ==
    num_phishing - state_sponsored - cybercrime

\* generate_synthetic_data(n) run from generator state r: the returned frame
\* and the generator state it leaves behind
generate_synthetic_data(n, r) ==
    LET num_phishing    == n \div 2
        num_benign      == n - num_phishing
        state_sponsored == num_phishing \div 3
        d1  == DrawColumns(r, state_sponsored, state_sponsored_data, 1)
        cybercrime      == num_phishing \div 3
        d2  == DrawColumns(d1.rng, cybercrime, cybercrime_data, 1)
        hacktivist      == HacktivistCount(num_phishing, state_sponsored, cybercrime)
        d3  == DrawColumns(d2.rng, hacktivist, hacktivist_data, 1)
        d4  == DrawColumns(d3.rng, num_benign, benign_data, 1)
        df_state_sponsored == LabelledFrame(d1.cols, state_sponsored, 1, 0)
        df_cybercrime      == LabelledFrame(d2.cols, cybercrime, 1, 1)
        df_hacktivist      == LabelledFrame(d3.cols, hacktivist, 1, 2)
        df_benign          == LabelledFrame(d4.cols, num_benign, 0, -1)
        final_df == df_state_sponsored \o df_cybercrime \o df_hacktivist \o df_benign
    IN  Shuffle(final_df, d4.rng, Len(final_df))

(***************************************************************************)
(* Calls of the generator.                                                 *)
(***************************************************************************)
\* a further call in the same process: the generator state is what the
\* previous draws left
GenerateSameProcess ==
    /\ Len(runs) < MaxRuns
    /\ LET g == generate_synthetic_data(num_samples, rng)
       IN  /\ runs' = Append(runs, g.df)
           /\ rng' = g.rng
    /\ UNCHANGED <<num_samples, trainVars, serveVars>>

\* a call in a fresh process: numpy seeds the generator from OS entropy
GenerateNewProcess ==
    /\ Len(runs) < MaxRuns
    /\ \E e \in Entropy :
         LET g == generate_synthetic_data(num_samples, e)
         IN  /\ runs' = Append(runs, g.df)
             /\ rng' = g.rng
    /\ UNCHANGED <<num_samples, trainVars, serveVars>>

(***************************************************************************)
(* Serving-side profile table (app.py:18-58) and the lookup of a cluster   *)
(* id in it (app.py:192-199).                                              *)
(***************************************************************************)
THREAT_ACTOR_PROFILES ==
    [ k \in 0 .. 2 |->
        CASE k = 0 ->
               [ name |-> "Organized Cybercrime",
                 description |-> "High-volume, financially motivated threat actors using automated tools and infrastructure.",
                 characteristics |->
                   << "Frequent use of IP addresses and URL shortening services",
                      "High volume of abnormal URL structures",
                      "Moderate sophistication with focus on quantity over quality",
                      "Targets financial gain through phishing campaigns" >>,
                 motivations |-> "Financial profit through credential theft, credit card fraud, and ransomware deployment",
                 typical_targets |-> "Financial institutions, e-commerce sites, healthcare organizations",
                 color |-> "red" ]
          [] k = 1 ->
               [ name |-> "State-Sponsored",
                 description |-> "Nation-state actors with high sophistication and strategic objectives.",
                 characteristics |->
                   << "Advanced evasion techniques and complex URL structures",
                      "High use of prefix/suffix manipulation and subdomain complexity",
                      "Poor SSL certificate usage for stealth",
                      "Targeted political and strategic intelligence gathering" >>,
                 motivations |-> "Intelligence collection, political espionage, and strategic advantage",
                 typical_targets |-> "Government agencies, defense contractors, critical infrastructure",
                 color |-> "blue" ]
          [] k = 2 ->
               [ name |-> "Hacktivist",
                 description |-> "Ideologically motivated actors with mixed technical capabilities.",
                 characteristics |->
                   << "High political keyword usage in campaigns",
                      "Mixed technical sophistication levels",
                      "Balanced approach to URL manipulation techniques",
                      "Focus on ideological messaging and disruption" >>,
                 motivations |-> "Political activism, social justice, and ideological statements",
                 typical_targets |-> "Government websites, corporations, political organizations",
                 color |-> "green" ] ]

UnknownThreatActor ==
    [ name |-> "Unknown Threat Actor",
      description |-> "Unable to determine threat actor profile.",
      characteristics |-> <<>>,
      motivations |-> "Unknown",
      typical_targets |-> "Unknown",
      color |-> "gray" ]

\* a lookup whose default is the first profile of the table
ThreatProfileForDefaultsToFirst(cid) ==
    IF cid \in DOMAIN THREAT_ACTOR_PROFILES
    THEN THREAT_ACTOR_PROFILES[cid]
    ELSE THREAT_ACTOR_PROFILES[0]

\* THREAT_ACTOR_PROFILES.get(cluster_id, {...unknown...})
ThreatProfileFor(cid) ==
    IF cid \in DOMAIN THREAT_ACTOR_PROFILES
    THEN THREAT_ACTOR_PROFILES[cid]
    ELSE UnknownThreatActor

(***************************************************************************)
(* Offline training: train() of train_model.py.                            *)
(***************************************************************************)
model_path == "models/phishing_url_detector.pkl"
clustering_model_path == "models/threat_actor_profiler.pkl"
plot_path == "models/feature_importance.png"
cluster_plot_path == "models/threat_clusters.png"
csv_path == "data/phishing_synthetic.csv"
plot_tmp_path == "Feature Importance.png"

Paths == {model_path, clustering_model_path, plot_path, cluster_plot_path,
          csv_path, plot_tmp_path}

\* os.path.exists
Exists(fs, p) == fs[p] # None

\* the guard of line 211, with the skip never taken
ModelsAlreadyExistNever(fs) == FALSE

\* line 211: both model artifacts are on disk
ModelsAlreadyExist(fs) == Exists(fs, model_path) /\ Exists(fs, clustering_model_path)

\* the ids create_model('kmeans', num_clusters=3) partitions into
ClusterIds == 0 .. 2

\* train_classification_model(data): setup(data, target='label') on the whole
\* frame, every other column a predictor
train_classification_model(d) ==
    [ kind    |-> "classifier",
      target  |-> "label",
      columns |-> Columns \ {"label"},
      rows    |-> DOMAIN d,
      labels  |-> <<>> ]

\* the frame train() hands to train_clustering_model (line 227): `data`
ClusteringRows(d) == DOMAIN d

\* train_clustering_model(data): data.drop(['label', 'threat_actor'], axis=1),
\* then k-means with 3 clusters.  `assignment` is the cluster k-means gives
\* each row it was fitted on.
train_clustering_model(d, rowset, assignment) ==
    [ kind    |-> "clustering",
      target  |-> "",
      columns |-> Columns \ {"label", "threat_actor"},
      rows    |-> rowset,
      labels  |-> assignment ]

\* an artifact left by an earlier installation
Preexisting(k) ==
    [ kind |-> k, target |-> "", columns |-> {}, rows |-> {}, labels |-> <<>> ]

\* create_cluster_visualization: the name annotated at each non-empty cluster
cluster_labels == << "Organized Cybercrime", "State-Sponsored", "Hacktivist" >>

create_cluster_visualization(m) ==
    [ kind    |-> "cluster_plot",
      target  |-> "",
      columns |-> m.columns,
      rows    |-> m.rows,
      labels  |-> [ i \in 1 .. Len(cluster_labels) |->
                      IF \E r \in m.rows : m.labels[r] = i - 1
                      THEN cluster_labels[i] ELSE "" ] ]

\* train() is entered (lines 204-213): skip when both models exist
TrainCall ==
    /\ train_pc = "idle"
    /\ Len(train_calls) < MaxTrainCalls
    /\ IF ModelsAlreadyExist(files)
       THEN /\ train_calls' = Append(train_calls, "skipped")
            /\ train_pc' = "idle"
       ELSE /\ train_calls' = train_calls
            /\ train_pc' = "generate"
    /\ UNCHANGED <<genVars, files, data, classification_model, clustering_model, serveVars>>

\* lines 216-221: the corpus is generated and written as CSV
TrainGenerate ==
    /\ train_pc = "generate"
    /\ LET g == generate_synthetic_data(num_samples, rng)
       IN  /\ data' = Some(g.df)
           /\ rng' = g.rng
           /\ files' = [files EXCEPT ![csv_path] = Some(g.df)]
    /\ train_pc' = "classification"
    /\ UNCHANGED <<num_samples, runs, classification_model, clustering_model, train_calls, serveVars>>

\* line 224
TrainClassification ==
    /\ train_pc = "classification"
    /\ classification_model' = Some(train_classification_model(data[1]))
    /\ train_pc' = "clustering"
    /\ UNCHANGED <<genVars, files, data, clustering_model, train_calls, serveVars>>

\* line 227: k-means assigns each row one of the three cluster ids; which id
\* a group of rows gets is up to the algorithm
TrainClustering ==
    /\ train_pc = "clustering"
    /\ LET rowset == ClusteringRows(data[1])
       IN  \E assignment \in [rowset -> ClusterIds] :
             clustering_model' = Some(train_clustering_model(data[1], rowset, assignment))
    /\ train_pc' = "save_classification"
    /\ UNCHANGED <<genVars, files, data, classification_model, train_calls, serveVars>>

\* line 231
SaveClassification ==
    /\ train_pc = "save_classification"
    /\ files' = [files EXCEPT ![model_path] = classification_model]
    /\ train_pc' = "save_clustering"
    /\ UNCHANGED <<genVars, data, classification_model, clustering_model, train_calls, serveVars>>

\* line 234
SaveClustering ==
    /\ train_pc = "save_clustering"
    /\ files' = [files EXCEPT ![clustering_model_path] = clustering_model]
    /\ train_pc' = "feature_plot"
    /\ UNCHANGED <<genVars, data, classification_model, clustering_model, train_calls, serveVars>>

\* lines 238-239: plot_model writes 'Feature Importance.png', os.rename moves it
FeaturePlot ==
    /\ train_pc = "feature_plot"
    /\ LET plot == [ kind |-> "feature_plot", target |-> "label",
                     columns |-> classification_model[1].columns,
                     rows |-> {}, labels |-> <<>> ]
           written == [files EXCEPT ![plot_tmp_path] = Some(plot)]
       IN  files' = [written EXCEPT ![plot_path] = written[plot_tmp_path],
                                    ![plot_tmp_path] = None]
    /\ train_pc' = "cluster_plot"
    /\ UNCHANGED <<genVars, data, classification_model, clustering_model, train_calls, serveVars>>

\* lines 242-244: the cluster plot is saved and train() returns
ClusterPlot ==
    /\ train_pc = "cluster_plot"
    /\ files' = [files EXCEPT ![cluster_plot_path] =
                     Some(create_cluster_visualization(clustering_model[1]))]
    /\ train_calls' = Append(train_calls, "trained")
    /\ train_pc' = "idle"
    /\ UNCHANGED <<genVars, data, classification_model, clustering_model, serveVars>>

(***************************************************************************)
(* Serving: the script of app.py.  Streamlit runs it from the top on every *)
(* interaction; only the st.cache_resource entry survives a rerun.         *)
(***************************************************************************)
\* the widgets of the sidebar form (lines 99-111) and their options
AllForms ==
    [ url_length        : {"Short", "Normal", "Long"},
      ssl_state         : {"Trusted", "Suspicious", "None"},
      sub_domain        : {"None", "One", "Many"},
      prefix_suffix     : BOOLEAN,
      has_ip            : BOOLEAN,
      short_service     : BOOLEAN,
      at_symbol         : BOOLEAN,
      abnormal_url      : BOOLEAN,
      political_keyword : BOOLEAN,
      sophistication    : {"Low", "Medium", "High"} ]

\* the widgets' default values (the `value=` arguments)
DefaultForm ==
    [ url_length |-> "Long", ssl_state |-> "Suspicious", sub_domain |-> "One",
      prefix_suffix |-> TRUE, has_ip |-> FALSE, short_service |-> FALSE,
      at_symbol |-> FALSE, abnormal_url |-> TRUE, political_keyword |-> FALSE,
      sophistication |-> "Medium" ]

\* every widget at its clean end, and every widget at its risky end
CleanForm ==
    [ url_length |-> "Normal", ssl_state |-> "Trusted", sub_domain |-> "None",
      prefix_suffix |-> FALSE, has_ip |-> FALSE, short_service |-> FALSE,
      at_symbol |-> FALSE, abnormal_url |-> FALSE, political_keyword |-> FALSE,
      sophistication |-> "Low" ]

RiskyForm ==
    [ url_length |-> "Long", ssl_state |-> "None", sub_domain |-> "Many",
      prefix_suffix |-> TRUE, has_ip |-> TRUE, short_service |-> TRUE,
      at_symbol |-> TRUE, abnormal_url |-> TRUE, political_keyword |-> TRUE,
      sophistication |-> "High" ]

\* the forms a request of the serving specification is submitted with
SampleForms == {DefaultForm, CleanForm, RiskyForm}

\* st.selectbox("Select GenAI Provider", [...]) (line 114)
Providers == {"Gemini", "OpenAI", "Grok"}

\* input_dict (lines 138-155)
InputDict(fv) ==
    [ having_IP_Address        |-> IF fv.has_ip THEN 1 ELSE -1,
      URL_Length               |-> IF fv.url_length = "Short" THEN -1
                                   ELSE IF fv.url_length = "Normal" THEN 0 ELSE 1,
      Shortining_Service       |-> IF fv.short_service THEN 1 ELSE -1,
      having_At_Symbol         |-> IF fv.at_symbol THEN 1 ELSE -1,
      double_slash_redirecting |-> -1,
      Prefix_Suffix            |-> IF fv.prefix_suffix THEN 1 ELSE -1,
      having_Sub_Domain        |-> IF fv.sub_domain = "None" THEN -1
                                   ELSE IF fv.sub_domain = "One" THEN 0 ELSE 1,
      SSLfinal_State           |-> IF fv.ssl_state = "None" THEN -1
                                   ELSE IF fv.ssl_state = "Suspicious" THEN 0 ELSE 1,
      Abnormal_URL             |-> IF fv.abnormal_url THEN 1 ELSE -1,
      URL_of_Anchor            |-> 0,
      Links_in_tags            |-> 0,
      SFH                      |-> 0,
      has_political_keyword    |-> IF fv.political_keyword THEN 1 ELSE -1,
      sophistication_level     |-> IF fv.sophistication = "Low" THEN -1
                                   ELSE IF fv.sophistication = "Medium" THEN 0 ELSE 1 ]

\* the keys of risk_scores, in the order of the literal
RiskFactors ==
    << "Bad SSL", "Abnormal URL", "Prefix/Suffix", "Shortened URL",
       "Complex Sub-domain", "Long URL", "Uses IP Address", "Political Keywords",
       "High Sophistication" >>

\* risk_scores with the SSL test the wrong way round
RiskScoresSSLInverted(d) ==
    [ k \in { RiskFactors[i] : i \in DOMAIN RiskFactors } |->
        CASE k = "Bad SSL"             -> IF d.SSLfinal_State > 0 THEN 25 ELSE 0
          [] k = "Abnormal URL"        -> IF d.Abnormal_URL = 1 THEN 20 ELSE 0
          [] k = "Prefix/Suffix"       -> IF d.Prefix_Suffix = 1 THEN 15 ELSE 0
          [] k = "Shortened URL"       -> IF d.Shortining_Service = 1 THEN 15 ELSE 0
          [] k = "Complex Sub-domain"  -> IF d.having_Sub_Domain = 1 THEN 10 ELSE 0
          [] k = "Long URL"            -> IF d.URL_Length = 1 THEN 10 ELSE 0
          [] k = "Uses IP Address"     -> IF d.having_IP_Address = 1 THEN 5 ELSE 0
          [] k = "Political Keywords"  -> IF d.has_political_keyword = 1 THEN 10 ELSE 0
          [] k = "High Sophistication" -> IF d.sophistication_level = 1 THEN 15 ELSE 0 ]

\* risk_scores (lines 159-169)
RiskScores(d) ==
    [ k \in { RiskFactors[i] : i \in DOMAIN RiskFactors } |->
        CASE k = "Bad SSL"             -> IF d.SSLfinal_State < 1 THEN 25 ELSE 0
          [] k = "Abnormal URL"        -> IF d.Abnormal_URL = 1 THEN 20 ELSE 0
          [] k = "Prefix/Suffix"       -> IF d.Prefix_Suffix = 1 THEN 15 ELSE 0
          [] k = "Shortened URL"       -> IF d.Shortining_Service = 1 THEN 15 ELSE 0
          [] k = "Complex Sub-domain"  -> IF d.having_Sub_Domain = 1 THEN 10 ELSE 0
          [] k = "Long URL"            -> IF d.URL_Length = 1 THEN 10 ELSE 0
          [] k = "Uses IP Address"     -> IF d.having_IP_Address = 1 THEN 5 ELSE 0
          [] k = "Political Keywords"  -> IF d.has_political_keyword = 1 THEN 10 ELSE 0
          [] k = "High Sophistication" -> IF d.sophistication_level = 1 THEN 15 ELSE 0 ]

\* the height of the bar chart: the sum of the contributions
RECURSIVE SumFactors(_, _)
SumFactors(rs, i) ==
    IF i > Len(RiskFactors) THEN 0 ELSE rs[RiskFactors[i]] + SumFactors(rs, i + 1)

RiskTotal(rs) == SumFactors(rs, 1)

\* predict_model(classification_model, ...): the label, and prediction_score,
\* the probability of that label, in 1/10000 (PyCaret rounds to 4 decimals)
PredictionLabels == {0, 1}
PredictionScores == {5000, 6250, 8800, 10000}

\* the 'Cluster' value predict_clustering can return: one of the three ids
\* of the partition, or a label THREAT_ACTOR_PROFILES has no key for
ClusterOutputs == 0 .. 3

\* generate_prescription(provider, context) of genai_prescriptions: a plan,
\* or an exception
PrescriptionPlan ==
    [ recommended_actions |-> << "Block the URL at the proxy", "Reset exposed credentials" >>,
      communication_draft |-> "We have blocked a phishing URL you reported." ]

generate_prescription(provider, context) ==
    IF provider \notin Providers
    THEN { [ok |-> FALSE, plan |-> None, error |-> "UnsupportedProvider"] }
    ELSE { [ok |-> TRUE,  plan |-> Some(PrescriptionPlan), error |-> ""],
           [ok |-> FALSE, plan |-> None, error |-> "ProviderError"],
           [ok |-> FALSE, plan |-> None, error |-> "MalformedResponse"] }

\* f"{x:.2%}" of a probability x given in 1/10000: whole percents and hundredths
FormatPercent(x) == <<x \div 100, x % 100>>

NoCalls == [predict_model |-> 0, predict_clustering |-> 0, generate_prescription |-> 0]

\* the script's namespace at the top of a rerun
RunStart ==
    /\ pc = "load"
    /\ assets = None
    /\ form_values = None
    /\ genai_provider = None
    /\ input_dict = None
    /\ risk_scores = None
    /\ prediction = None
    /\ is_malicious = FALSE
    /\ cluster_id = None
    /\ threat_profile = None
    /\ prescription = None
    /\ raised = None
    /\ status = None
    /\ errors = <<>>
    /\ calls = NoCalls
    /\ display = None

\* load_assets() (lines 61-86): the body runs when the cache has no entry,
\* and its return value is cached whatever it is
LoadAssets ==
    /\ pc = "load"
    /\ LET loaded ==
             [ classification_model |->
                 IF Exists(files, model_path) THEN files[model_path] ELSE None,
               clustering_model |->
                 IF Exists(files, clustering_model_path)
                 THEN files[clustering_model_path] ELSE None,
               feature_plot |-> IF Exists(files, plot_path) THEN Some(plot_path) ELSE None,
               cluster_plot |->
                 IF Exists(files, cluster_plot_path) THEN Some(cluster_plot_path) ELSE None ]
       IN  IF cache = None
           THEN /\ cache' = Some(loaded)
                /\ assets' = Some(loaded)
           ELSE /\ cache' = cache
                /\ assets' = cache
    /\ pc' = "gate"
    /\ UNCHANGED <<genVars, trainVars, form_values, genai_provider, input_dict,
                   risk_scores, prediction, is_malicious, cluster_id, threat_profile,
                   prescription, status, errors, calls, display, raised>>

\* the test of line 88 with `and` for `or`
ModelsMissingBoth(a) == a.classification_model = None /\ a.clustering_model = None

\* line 88: not classification_model or not clustering_model
ModelsMissing(a) == a.classification_model = None \/ a.clustering_model = None

\* lines 88-91: st.error and st.stop, or on to the sidebar
Gate ==
    /\ pc = "gate"
    /\ IF ModelsMissing(assets[1])
       THEN /\ errors' = Append(errors, <<"Models not found", "">>)
            /\ pc' = "stopped"
       ELSE /\ errors' = errors
            /\ pc' = "sidebar"
    /\ UNCHANGED <<genVars, trainVars, cache, assets, form_values, genai_provider,
                   input_dict, risk_scores, prediction, is_malicious, cluster_id,
                   threat_profile, prescription, status, calls, display, raised>>

\* the page shown while nothing is submitted, and the result tabs
InfoPage(a) ==
    [ page |-> "info", verdict |-> "", confidence |-> None, attribution |-> "",
      profile |-> None, cluster |-> None, risk_chart |-> None,
      feature_plot |-> a.feature_plot, cluster_plot |-> a.cluster_plot,
      plan_tab |-> "", plan |-> None ]

\* lines 94-122: the widgets are read; without a click the info page is shown
Sidebar ==
    /\ pc = "sidebar"
    /\ \E fv \in SampleForms, provider \in Providers, submitted \in BOOLEAN :
         /\ form_values' = Some(fv)
         /\ genai_provider' = Some(provider)
         /\ IF submitted
            THEN /\ pc' = "prepare"
                 /\ display' = display
            ELSE /\ pc' = "info"
                 /\ display' = Some(InfoPage(assets[1]))
    /\ UNCHANGED <<genVars, trainVars, cache, assets, input_dict, risk_scores,
                   prediction, is_malicious, cluster_id, threat_profile, prescription,
                   status, errors, calls, raised>>

\* lines 138-171: the feature vector and the risk contributions
PrepareInput ==
    /\ pc = "prepare"
    /\ input_dict' = Some(InputDict(form_values[1]))
    /\ risk_scores' = Some(RiskScores(InputDict(form_values[1])))
    /\ pc' = "predict"
    /\ UNCHANGED <<genVars, trainVars, cache, assets, form_values, genai_provider,
                   prediction, is_malicious, cluster_id, threat_profile, prescription,
                   status, errors, calls, display, raised>>

\* lines 177-182: the classifier's verdict
Predict ==
    /\ pc = "predict"
    /\ \E label \in PredictionLabels, score \in PredictionScores :
         /\ prediction' = Some([prediction_label |-> label, prediction_score |-> score])
         /\ is_malicious' = (label = 1)
    /\ calls' = [calls EXCEPT !.predict_model = @ + 1]
    /\ pc' = "branch"
    /\ UNCHANGED <<genVars, trainVars, cache, assets, form_values, genai_provider,
                   input_dict, risk_scores, cluster_id, threat_profile, prescription,
                   status, errors, display, raised>>

\* the attribution step taken whatever the verdict
AttributeAlways ==
    /\ pc = "branch"
    /\ \E cid \in ClusterOutputs :
         /\ cluster_id' = Some(cid)
         /\ threat_profile' = Some(ThreatProfileFor(cid))
    /\ calls' = [calls EXCEPT !.predict_clustering = @ + 1]
    /\ pc' = "prescribe"
    /\ UNCHANGED <<genVars, trainVars, cache, assets, form_values, genai_provider,
                   input_dict, risk_scores, prediction, is_malicious, prescription,
                   status, errors, display, raised>>

\* lines 184-199: malicious, so the clustering model attributes the vector
Attribute ==
    /\ pc = "branch"
    /\ is_malicious
    /\ \E cid \in ClusterOutputs :
         /\ cluster_id' = Some(cid)
         /\ threat_profile' = Some(ThreatProfileFor(cid))
    /\ calls' = [calls EXCEPT !.predict_clustering = @ + 1]
    /\ pc' = "prescribe"
    /\ UNCHANGED <<genVars, trainVars, cache, assets, form_values, genai_provider,
                   input_dict, risk_scores, prediction, is_malicious, prescription,
                   status, errors, display, raised>>

\* an except branch that also throws the attribution away
PrescriptionFailedDiscards(e) ==
    /\ errors' = Append(errors, <<"Failed to generate prescription", e>>)
    /\ prescription' = None
    /\ status' = Some("error: Error during GenAI prescription!")
    /\ cluster_id' = None
    /\ threat_profile' = None
    /\ calls' = [calls EXCEPT !.generate_prescription = @ + 1]

\* lines 205-208: the except branch
PrescriptionFailed(e) ==
    /\ errors' = Append(errors, <<"Failed to generate prescription", e>>)
    /\ prescription' = None
    /\ status' = Some("error: Error during GenAI prescription!")
    /\ UNCHANGED <<cluster_id, threat_profile>>
    /\ calls' = [calls EXCEPT !.generate_prescription = @ + 1]

\* lines 203-204: the call returned
PrescriptionReturned(plan) ==
    /\ errors' = errors
    /\ prescription' = plan
    /\ status' = Some("complete: Cognitive SOAR Playbook Executed Successfully!")
    /\ UNCHANGED <<cluster_id, threat_profile>>
    /\ calls' = [calls EXCEPT !.generate_prescription = @ + 1]

\* lines 201-208: one call of the provider inside try/except
Prescribe ==
    /\ pc = "prescribe"
    /\ \E o \in generate_prescription(genai_provider[1], input_dict[1]) :
         /\ raised' = IF o.ok THEN None ELSE Some(o.error)
         /\ IF o.ok THEN PrescriptionReturned(o.plan) ELSE PrescriptionFailed(o.error)
    /\ pc' = "tabs"
    /\ UNCHANGED <<genVars, trainVars, cache, assets, form_values, genai_provider,
                   input_dict, risk_scores, prediction, is_malicious, display>>

\* lines 209-213: benign
NoThreat ==
    /\ pc = "branch"
    /\ ~is_malicious
    /\ threat_profile' = None
    /\ cluster_id' = None
    /\ prescription' = None
    /\ status' = Some("complete: Analysis Complete. No threat found.")
    /\ pc' = "tabs"
    /\ UNCHANGED <<genVars, trainVars, cache, assets, form_values, genai_provider,
                   input_dict, risk_scores, prediction, is_malicious, errors, calls,
                   display, raised>>

\* lines 216-302: the four tabs
ResultTabs ==
    [ page |-> "result",
      verdict |-> IF is_malicious THEN "Prediction: Malicious Phishing URL"
                  ELSE "Prediction: Benign URL",
      confidence |-> Some(FormatPercent(IF is_malicious
                                        THEN prediction[1].prediction_score
                                        ELSE 10000 - prediction[1].prediction_score)),
      attribution |-> IF is_malicious /\ threat_profile # None THEN "profile"
                      ELSE IF ~is_malicious THEN "not required"
                      ELSE "unavailable",
      profile |-> IF is_malicious /\ threat_profile # None THEN threat_profile ELSE None,
      cluster |-> IF is_malicious /\ threat_profile # None THEN cluster_id ELSE None,
      risk_chart |-> risk_scores,
      feature_plot |-> assets[1].feature_plot,
      cluster_plot |-> assets[1].cluster_plot,
      plan_tab |-> IF prescription # None
                   THEN "A prescriptive response plan has been generated by the AI."
                   ELSE "No prescriptive plan was generated because the URL was classified as benign.",
      plan |-> prescription ]

Tabs ==
    /\ pc = "tabs"
    /\ display' = Some(ResultTabs)
    /\ pc' = "done"
    /\ UNCHANGED <<genVars, trainVars, cache, assets, form_values, genai_provider,
                   input_dict, risk_scores, prediction, is_malicious, cluster_id,
                   threat_profile, prescription, status, errors, calls, raised>>

\* the next interaction: the script runs again from the top
Rerun ==
    /\ pc \in {"stopped", "info", "done"}
    /\ pc' = "load"
    /\ assets' = None
    /\ form_values' = None
    /\ genai_provider' = None
    /\ input_dict' = None
    /\ risk_scores' = None
    /\ prediction' = None
    /\ is_malicious' = FALSE
    /\ cluster_id' = None
    /\ threat_profile' = None
    /\ prescription' = None
    /\ raised' = None
    /\ status' = None
    /\ errors' = <<>>
    /\ calls' = NoCalls
    /\ display' = None
    /\ UNCHANGED <<genVars, trainVars, cache>>

(***************************************************************************)
(* Specifications.                                                         *)
(***************************************************************************)
GenIdle ==
    /\ num_samples = 0
    /\ rng = 0
    /\ runs = <<>>

ServeIdle ==
    /\ cache = None
    /\ RunStart

TrainIdle ==
    /\ train_pc = "idle"
    /\ data = None
    /\ classification_model = None
    /\ clustering_model = None
    /\ train_calls = <<>>

InitGen ==
    /\ num_samples \in 0 .. MaxSamples
    /\ rng \in Entropy
    /\ runs = <<>>
    /\ files = [p \in Paths |-> None]
    /\ TrainIdle
    /\ ServeIdle

NextGen == GenerateSameProcess \/ GenerateNewProcess

SpecGen == InitGen /\ [][NextGen]_vars

\* training starts in a models directory holding any of the two model files
InitTrain ==
    /\ num_samples \in 3 .. TrainSamples
    /\ rng \in Entropy
    /\ runs = <<>>
    /\ \E present \in SUBSET {model_path, clustering_model_path} :
         files = [p \in Paths |->
                    IF p \in present
                    THEN Some(Preexisting(IF p = model_path THEN "classifier" ELSE "clustering"))
                    ELSE None]
    /\ TrainIdle
    /\ ServeIdle

NextTrain ==
    \/ TrainCall
    \/ TrainGenerate
    \/ TrainClassification
    \/ TrainClustering
    \/ SaveClassification
    \/ SaveClustering
    \/ FeaturePlot
    \/ ClusterPlot

SpecTrain == InitTrain /\ [][NextTrain]_vars

\* an artifact on disk when the serving process starts
ArtifactOnDisk(p) ==
    Preexisting(IF p = model_path THEN "classifier"
                ELSE IF p = clustering_model_path THEN "clustering"
                ELSE IF p = plot_path THEN "feature_plot" ELSE "cluster_plot")

\* serving starts with any of the four artifacts on disk
InitServe ==
    /\ GenIdle
    /\ \E present \in SUBSET {model_path, clustering_model_path, plot_path, cluster_plot_path} :
         files = [p \in Paths |-> IF p \in present THEN Some(ArtifactOnDisk(p)) ELSE None]
    /\ TrainIdle
    /\ ServeIdle

NextServe ==
    \/ LoadAssets
    \/ Gate
    \/ Sidebar
    \/ PrepareInput
    \/ Predict
    \/ Attribute
    \/ Prescribe
    \/ NoThreat
    \/ Tabs
    \/ Rerun

SpecServe == InitServe /\ [][NextServe]_vars

\* risk scoring over the whole form: every combination of widget values is
\* submitted
InitRisk ==
    /\ GenIdle
    /\ files = [p \in Paths |->
                 IF p \in {model_path, clustering_model_path}
                 THEN Some(ArtifactOnDisk(p)) ELSE None]
    /\ TrainIdle
    /\ ServeIdle

\* the sidebar read with any combination of widget values, submitted
SidebarAnyForm ==
    /\ pc = "sidebar"
    /\ \E fv \in AllForms, provider \in Providers :
         /\ form_values' = Some(fv)
         /\ genai_provider' = Some(provider)
    /\ pc' = "prepare"
    /\ UNCHANGED <<genVars, trainVars, cache, assets, input_dict, risk_scores,
                   prediction, is_malicious, cluster_id, threat_profile, prescription,
                   status, errors, calls, display, raised>>

NextRisk ==
    \/ LoadAssets
    \/ Gate
    \/ SidebarAnyForm
    \/ PrepareInput

SpecRisk == InitRisk /\ [][NextRisk]_vars

\* the serving process is started in a fresh installation while train()
\* has still to run: no artifact is on disk yet, and the script is rerun at
\* any moment of the training
InitRecover ==
    /\ num_samples = Cardinality(ClusterIds)
    /\ rng = CHOOSE e \in Entropy : TRUE
    /\ runs = <<>>
    /\ files = [p \in Paths |-> None]
    /\ TrainIdle
    /\ ServeIdle

NextRecover ==
    \/ NextTrain
    \/ NextServe

SpecRecover == InitRecover /\ [][NextRecover]_vars

(***************************************************************************)
(* Properties.                                                             *)
(***************************************************************************)
ProviderFailureMessage == "Failed to generate prescription"

\* C1: when generate_prescription raises in a malicious request, the request
\* completes with prescription = None and the error reported; verdict,
\* cluster id, threat profile and risk scores stay as computed and are the
\* ones displayed; the provider is called once.
C1_PrescriptionFailureOnlyDegradesPlan ==
    [][ /\ (pc = "prescribe" /\ raised' # None) =>
             /\ pc' = "tabs"
             /\ prescription' = None
             /\ errors' = Append(errors, <<ProviderFailureMessage, raised'[1]>>)
             /\ is_malicious' = is_malicious
             /\ prediction' = prediction
             /\ cluster_id' = cluster_id
             /\ threat_profile' = threat_profile
             /\ risk_scores' = risk_scores
             /\ calls'.generate_prescription = 1
        /\ (pc = "tabs" /\ raised # None) =>
             /\ pc' = "done"
             /\ is_malicious
             /\ display'[1].verdict = "Prediction: Malicious Phishing URL"
             /\ display'[1].confidence = Some(FormatPercent(prediction[1].prediction_score))
             /\ display'[1].attribution = "profile"
             /\ display'[1].profile = threat_profile
             /\ threat_profile # None
             /\ display'[1].cluster = cluster_id
             /\ display'[1].risk_chart = risk_scores
             /\ display'[1].plan = None
             /\ UNCHANGED <<is_malicious, prediction, cluster_id, threat_profile,
                            risk_scores, prescription, errors, calls>>
             /\ calls.generate_prescription = 1
      ]_vars

C1_Witness ==
    /\ pc = "done"
    /\ is_malicious
    /\ raised = Some("ProviderError")
    /\ prescription = None
    /\ display[1].attribution = "profile"
    /\ calls.generate_prescription = 1

\* C2: in a request with a benign verdict neither the clustering prediction
\* nor generate_prescription is invoked, and threat_profile, cluster_id and
\* prescription are None; a prescription exists only under a malicious verdict.
C2_BenignSkipsAttributionAndPlan ==
    /\ (prediction # None /\ ~is_malicious) =>
         /\ calls.predict_clustering = 0
         /\ calls.generate_prescription = 0
         /\ cluster_id = None
         /\ threat_profile = None
         /\ prescription = None
         /\ display # None =>
              /\ display[1].profile = None
              /\ display[1].cluster = None
              /\ display[1].plan = None
    /\ prescription # None =>
         /\ prediction # None
         /\ prediction[1].prediction_label = 1
         /\ is_malicious

C2_Witness ==
    /\ pc = "done"
    /\ prediction # None
    /\ prediction[1].prediction_label = 0
    /\ display[1].attribution = "not required"

\* C3: with the classifier artifact or the clustering artifact absent, the
\* serving path reports the error and stops: no input vector is built, no
\* model predicts and the provider is not called.
C3_MissingModelBlocksServing ==
    (~Exists(files, model_path) \/ ~Exists(files, clustering_model_path)) =>
        /\ pc \in {"load", "gate", "stopped"}
        /\ input_dict = None
        /\ risk_scores = None
        /\ calls = NoCalls
        /\ pc = "stopped" => errors = << <<"Models not found", "">> >>

C3_Witness ==
    /\ pc = "stopped"
    /\ Exists(files, model_path)
    /\ ~Exists(files, clustering_model_path)
    /\ errors # <<>>

\* C4: a call of train() that starts with both model artifacts on disk
\* returns at once: no data is generated, no model fitted, no file written.
C4_TrainIsNoOpWhenModelsExist ==
    [][ (train_pc = "idle" /\ Exists(files, model_path)
                           /\ Exists(files, clustering_model_path)) =>
          /\ train_pc' = "idle"
          /\ files' = files
          /\ data' = data
          /\ classification_model' = classification_model
          /\ clustering_model' = clustering_model
          /\ rng' = rng
      ]_vars

C4_Witness ==
    /\ train_calls = << "trained", "skipped" >>
    /\ files[model_path] = classification_model
    /\ files[clustering_model_path] = clustering_model
    /\ files[csv_path] = data

\* C5: the confidence shown with a verdict is the probability of the
\* predicted class, hence at least 50%, for benign verdicts too.
C5_ConfidenceIsOfPredictedClass ==
    (display # None /\ display[1].page = "result") =>
        /\ display[1].confidence = Some(FormatPercent(prediction[1].prediction_score))
        /\ display[1].confidence[1][1] >= 50

\* the fields the risk contributions read, and for each its risky values
RiskFlags ==
    { "SSLfinal_State", "Abnormal_URL", "Prefix_Suffix", "Shortining_Service",
      "having_Sub_Domain", "URL_Length", "having_IP_Address",
      "has_political_keyword", "sophistication_level" }

RiskyValues(f) == IF f = "SSLfinal_State" THEN {0, -1} ELSE {1}

\* C6: moving one risk field of the vector from its safe value to a risky
\* value never lowers the total of the contributions, and no contribution
\* is negative.
C6_RiskMonotone ==
    risk_scores # None =>
        /\ \A k \in DOMAIN risk_scores[1] : risk_scores[1][k] >= 0
        /\ risk_scores[1] = RiskScores(input_dict[1])
        /\ \A f \in RiskFlags : \A x \in RiskyValues(f) :
             input_dict[1][f] \notin RiskyValues(f) =>
               RiskTotal(RiskScores([input_dict[1] EXCEPT ![f] = x]))
                 >= RiskTotal(risk_scores[1])

C6_Witness ==
    /\ risk_scores # None
    /\ input_dict[1].SSLfinal_State = 1
    /\ RiskTotal(risk_scores[1]) = 0
    /\ RiskTotal(RiskScores([input_dict[1] EXCEPT !.SSLfinal_State = 0])) = 25

\* the rows k-means put into cluster c, and the ground-truth archetype ids
\* that are most frequent among them
Members(m, c) == { i \in m.rows : m.labels[i] = c }

MajorityArchetypes(m, d, c) ==
    LET n(a) == Cardinality({ i \in Members(m, c) : d[i]["threat_actor"] = a })
    IN  { a \in -1 .. 2 : \A b \in -1 .. 2 : n(a) >= n(b) }

\* C7: the profile a cluster id resolves to at serving time is the one of
\* the majority ground-truth archetype of the rows of that cluster.
C7_ProfileIsMajorityArchetype ==
    clustering_model # None =>
        \A c \in ClusterIds :
            Members(clustering_model[1], c) # {} =>
                \E a \in MajorityArchetypes(clustering_model[1], data[1], c) :
                    /\ a \in DOMAIN THREAT_ACTOR_PROFILES
                    /\ ThreatProfileFor(c) = THREAT_ACTOR_PROFILES[a]

\* C8: the clustering model is fitted on malicious rows only, without the
\* label and threat_actor columns.
C8_ClusteringOnMaliciousRowsOnly ==
    clustering_model # None =>
        /\ \A i \in clustering_model[1].rows : data[1][i]["label"] = 1
        /\ clustering_model[1].columns \cap {"label", "threat_actor"} = {}

CountRows(df, col, v) == Cardinality({ i \in DOMAIN df : df[i][col] = v })

\* C9: generate_synthetic_data(N) returns N rows, N div 2 of them malicious
\* and the rest benign with threat_actor -1; the malicious rows are split
\* (N div 2) div 3, (N div 2) div 3 and the remainder, so the archetype
\* counts differ by at most 2.
C9_GeneratorCounts ==
    \A r \in DOMAIN runs :
        LET df == runs[r]
            p  == num_samples \div 2
            a0 == CountRows(df, "threat_actor", 0)
            a1 == CountRows(df, "threat_actor", 1)
            a2 == CountRows(df, "threat_actor", 2)
        IN  /\ Len(df) = num_samples
            /\ CountRows(df, "label", 1) = p
            /\ CountRows(df, "label", 0) = num_samples - p
            /\ \A i \in DOMAIN df :
                 (df[i]["label"] = 0) <=> (df[i]["threat_actor"] = -1)
            /\ \A i \in DOMAIN df : df[i]["label"] \in {0, 1}
            /\ a0 = p \div 3
            /\ a1 = p \div 3
            /\ a2 = p - 2 * (p \div 3)
            /\ a0 + a1 + a2 = p
            /\ a2 - a0 <= 2 /\ a2 - a0 >= 0

C9_Witness ==
    /\ Len(runs) >= 1
    /\ num_samples = 10
    /\ CountRows(runs[1], "threat_actor", 0) = 1
    /\ CountRows(runs[1], "threat_actor", 2) = 3
    /\ CountRows(runs[1], "label", 0) = 5

\* C10: two runs of the generator with the same row count return the same
\* corpus, row for row.
C10_GeneratorReproducible ==
    Len(runs) >= 2 => runs[1] = runs[2]

\* C11: a cluster id without an entry in the profile table resolves to the
\* unknown profile ("Unknown Threat Actor") and the request goes on without
\* an exception; an id with an entry resolves to that entry's profile.
C11_UnboundClusterResolvesToUnknown ==
    cluster_id # None =>
        /\ threat_profile # None
        /\ pc \in {"prescribe", "tabs", "done"}
        /\ cluster_id[1] \in DOMAIN THREAT_ACTOR_PROFILES =>
             threat_profile[1] = THREAT_ACTOR_PROFILES[cluster_id[1]]
        /\ cluster_id[1] \notin DOMAIN THREAT_ACTOR_PROFILES =>
             /\ threat_profile[1] = UnknownThreatActor
             /\ threat_profile[1].name = "Unknown Threat Actor"
        /\ pc = "done" =>
             /\ display[1].attribution = "profile"
             /\ display[1].profile = threat_profile

C11_Witness ==
    /\ pc = "done"
    /\ cluster_id # None
    /\ cluster_id[1] \notin DOMAIN THREAT_ACTOR_PROFILES
    /\ display[1].profile # None
    /\ display[1].profile[1].name = "Unknown Threat Actor"

\* C12: every threat_actor id k the generator writes on a row denotes the
\* archetype that the serving profile keyed k names, and that the k-th label
\* of the cluster visualization names.
C12_ArchetypeIdsAgree ==
    \A r \in DOMAIN runs : \A i \in DOMAIN runs[r] :
        LET k == runs[r][i]["threat_actor"]
        IN  k \in DOMAIN generator_archetypes =>
              /\ k \in DOMAIN THREAT_ACTOR_PROFILES
              /\ generator_archetypes[k].name = THREAT_ACTOR_PROFILES[k].name
              /\ generator_archetypes[k].name = cluster_labels[k + 1]

BenignPlanMessage ==
    "No prescriptive plan was generated because the URL was classified as benign."

\* C13: the plan tab says that no plan was generated because the URL was
\* classified as benign only when the verdict is benign; after a failed
\* provider call in a malicious request it does not give that reason.
C13_BenignReasonOnlyForBenignVerdict ==
    (display # None /\ display[1].page = "result") =>
        /\ display[1].plan_tab = BenignPlanMessage => ~is_malicious
        /\ (is_malicious /\ raised # None) =>
             /\ display[1].plan = None
             /\ display[1].plan_tab # BenignPlanMessage

\* C14: once both model artifacts are on disk, a rerun of the script gets
\* both models from load_assets() and passes the models-not-found test, also
\* when an earlier load of the same process found an artifact missing.
C14_ServingRecoversAfterTraining ==
    [][ /\ (/\ pc = "load"
            /\ pc' = "gate"
            /\ Exists(files, model_path)
            /\ Exists(files, clustering_model_path)) =>
               /\ assets'[1].classification_model # None
               /\ assets'[1].clustering_model # None
        /\ (/\ pc = "gate"
            /\ pc' # "gate"
            /\ assets[1].classification_model # None
            /\ assets[1].clustering_model # None) =>
               pc' = "sidebar"
      ]_vars

====
